---- MODULE Spec2Model ----
(***************************************************************************)
(* PoliSEE: the simulation core (backend/simulation) as a state machine.   *)
(*                                                                         *)
(* Python floats are represented as fixed-point integers in hundredths     *)
(* (Scale); the module-level generators `random` and `numpy.random` are     *)
(* represented by two small linear congruential streams that, like the     *)
(* originals, are process-global, are set by seed() and advance on every   *)
(* draw.                                                                   *)
(***************************************************************************)
EXTENDS Integers, Sequences, FiniteSets, TLC

\* ------------------------------------------------------------------ bounds
\* step() calls made in the process, and policies added to one engine.
MaxSteps == 3
MaxPolicies == 1
\* Records in a history handed to the detector.
MaxHistory == 4
\* Incomes in a list handed to calculate_gini.
MaxIncomes == 4

\* Fixed-point unit: 1.0 is Scale.
Scale == 10 * 10

EngineIds == {"A", "B"}
PopSizes == {-1, 0, 1, 2, 3, 4, 5, 19, 20}
Seeds == {1, 7, 42}
PairSizes == {1, 5}

Min2(a, b) == IF a <= b THEN a ELSE b
Max2(a, b) == IF a >= b THEN a ELSE b
Mul(a, b) == (a * b) \div Scale
Div(a, b) == (a * Scale) \div b

RECURSIVE SumSeq(_)
SumSeq(s) == IF s = <<>> THEN 0 ELSE Head(s) + SumSeq(Tail(s))

\* ------------------------------------------------- the global generators
\* One draw advances a stream.
Advance(s) == (s * 75 + 74) % 65537

\* random.random() / np.random.random(): a value in [0, 1).
Random01(s) == (s * Scale) \div 65537

\* random.randint(a, b): an integer in a..b.
RandInt(s, a, b) == a + (s * (b - a + 1)) \div 65537

\* np.random.lognormal(mean=7.0, sigma=0.8): quantiles of the distribution.
Lognormal(s) ==
    LET q == (s * 5) \div 65537
    IN  CASE q = 0 -> 400 * Scale
          [] q = 1 -> 800 * Scale
          [] q = 2 -> 1100 * Scale
          [] q = 3 -> 1700 * Scale
          [] OTHER -> 3500 * Scale

\* random.seed(seed); np.random.seed(seed): both global streams restart
\* from a state that depends on the seed alone.
SeedRngStale(rng, seed) == rng
SeedRng(rng, seed) ==
    [py |-> (seed * 7919 + 13) % 65537, np |-> (seed * 104729 + 71) % 65537]

\* ------------------------------------------------------------------ Agent
NewAgent(id, income, need, mobility, risk) ==
    [id |-> id,
     income |-> income,
     base_income |-> income,
     consumption_need |-> need,
     mobility |-> mobility,
     risk_tolerance |-> risk,
     social_influence_weight |-> Scale \div 10,
     wealth |-> income,
     compliance_probability |-> Scale - (Scale - risk) \div 2,
     last_decision |-> "comply",
     stress_level |-> 0,
     last_consumption |-> 0]

\* generate_population: the loop body for agents i..n-1, threading the
\* streams.  The range is walked first half, then second half, the second
\* starting once the first has left its streams.
RECURSIVE GenAgents(_, _, _, _)
GenRest(mid, n, first) ==
    IF first.rng.py >= 0 THEN GenAgents(mid, n, first.rng, first.agents) ELSE first

GenAgents(i, n, rng, acc) ==
    IF i >= n THEN [agents |-> acc, rng |-> rng]
    ELSE IF n - i = 1
    THEN LET np1 == Advance(rng.np)
             income == Lognormal(np1)
             py1 == Advance(rng.py)
             py2 == Advance(py1)
         IN  [agents |-> Append(acc, NewAgent(i, income, 500 * Scale + income \div 5,
                                             Random01(py1), Random01(py2))),
              rng |-> [py |-> py2, np |-> np1]]
    ELSE GenRest((i + n) \div 2, n, GenAgents(i, (i + n) \div 2, rng, acc))

generate_population(n, seed, rng) == GenAgents(0, n, SeedRng(rng, seed), <<>>)

\* ------------------------------------------------------------ Environment
NewNeighborhood == [supply |-> 50 * Scale, demand |-> 0, price |-> 10 * Scale]

\* Environment.__init__: neighborhoods 0..size-1 (held at index loc + 1).
NewEnvironment(size) ==
    [size |-> size,
     neighborhoods |-> [i \in 1..size |-> NewNeighborhood],
     agent_locations |-> <<>>,
     network |-> <<>>]

\* place_agents, first loop: one randint(0, size - 1) per agent.
RECURSIVE PlaceLocs(_, _, _, _, _)
PlaceLocsRest(mid, n, size, first) ==
    IF first.py >= 0 THEN PlaceLocs(mid, n, size, first.py, first.locs) ELSE first

PlaceLocs(i, n, size, py, acc) ==
    IF i >= n THEN [locs |-> acc, py |-> py]
    ELSE IF n - i = 1
    THEN [locs |-> Append(acc, RandInt(Advance(py), 0, size - 1)), py |-> Advance(py)]
    ELSE PlaceLocsRest((i + n) \div 2, n, size, PlaceLocs(i, (i + n) \div 2, size, py, acc))

RemoveAt(s, j) == [k \in 1..(Len(s) - 1) |-> IF k < j THEN s[k] ELSE s[k + 1]]

\* random.sample(pool, k) for k <= len(pool): k draws without replacement.
RECURSIVE Sample(_, _, _, _)
Sample(pool, k, py, acc) ==
    IF k = 0 THEN [picked |-> acc, py |-> py]
    ELSE LET py1 == Advance(py)
             j == 1 + RandInt(py1, 0, Len(pool) - 1)
         IN  Sample(RemoveAt(pool, j), k - 1, py1, Append(acc, pool[j]))

\* place_agents, second loop, for one agent: num_friends = randint(2, 5),
\* then random.sample(agent_ids, num_friends), which raises ValueError when
\* num_friends exceeds the population.
PlaceFriendsOf(n, py, acc) ==
    LET py1 == Advance(py)
        num_friends == RandInt(py1, 2, 5)
    IN  IF num_friends > n
        THEN [network |-> acc, py |-> py1, raised |-> "ValueError"]
        ELSE LET s == Sample([k \in 1..n |-> k - 1], num_friends, py1, <<>>)
             IN  [network |-> Append(acc, s.picked), py |-> s.py, raised |-> "none"]

\* place_agents, second loop, for the agents i..m-1 of n; an exception ends it.
RECURSIVE PlaceFriends(_, _, _, _, _)
PlaceFriendsRest(mid, m, n, first) ==
    IF first.raised # "none" THEN first
    ELSE PlaceFriends(mid, m, n, first.py, first.network)

PlaceFriends(i, m, n, py, acc) ==
    IF i >= m THEN [network |-> acc, py |-> py, raised |-> "none"]
    ELSE IF m - i = 1 THEN PlaceFriendsOf(n, py, acc)
    ELSE PlaceFriendsRest((i + m) \div 2, m, n, PlaceFriends(i, (i + m) \div 2, n, py, acc))

place_agents(env, n, py) ==
    LET l == PlaceLocs(0, n, env.size, py, <<>>)
        f == PlaceFriends(0, n, n, l.py, <<>>)
    IN  [env |-> [env EXCEPT !.agent_locations = l.locs, !.network = f.network],
         py |-> f.py,
         raised |-> f.raised]

\* SimulationEngine.__init__.  The result carries the streams as the
\* constructor leaves them and the exception it raised, if any.
EngineInit(population_size, seed, rng) ==
    LET g == generate_population(population_size, seed, rng)
        n == Len(g.agents)
        p == place_agents(NewEnvironment(Max2(1, population_size \div 10)), n, g.rng.py)
    IN  [eng |-> [seed |-> seed,
                  agents |-> g.agents,
                  env |-> p.env,
                  active_policies |-> <<>>,
                  history |-> <<>>,
                  current_step |-> 0],
         rng |-> [py |-> p.py, np |-> g.rng.np],
         raised |-> p.raised]

\* ---------------------------------------------------------- Agent methods
\* update_income(new_income): a paycheck, not a delta.
update_income(a, new_income) ==
    [a EXCEPT !.income = new_income,
              !.wealth = a.wealth + new_income,
              !.base_income = new_income]

ClampStress(x) == Max2(0, Min2(Scale, x))

\* decide_consumption(price, availability); one random.random() draw.
decide_consumption(a, price, availability, py) ==
    LET affordable_qty == Div(a.wealth, Max2(Scale \div 10, price))
        py1 == Advance(py)
        target_qty == Mul(a.consumption_need, 110 - Mul(20, Random01(py1)))
        actual_qty == Min2(target_qty, Min2(affordable_qty, availability))
        threshold == Mul(a.consumption_need, 80)
        stress == IF actual_qty < threshold
                  THEN a.stress_level + 5 + Mul(Div(threshold - actual_qty, threshold), 15)
                  ELSE a.stress_level - 3
    IN  [agent |-> [a EXCEPT !.wealth = a.wealth - Mul(actual_qty, price),
                             !.last_consumption = actual_qty,
                             !.stress_level = ClampStress(stress)],
         qty |-> actual_qty,
         py |-> py1]

\* 1 / (1 + exp(-x)) for x in hundredths, tabulated at the integers.
Sigmoid(x) ==
    LET k == x \div Scale
    IN  CASE k <= -5 -> 1
          [] k = -4 -> 2
          [] k = -3 -> 5
          [] k = -2 -> 12
          [] k = -1 -> 27
          [] k = 0 -> 50
          [] k = 1 -> 73
          [] k = 2 -> 88
          [] k = 3 -> 95
          [] k = 4 -> 98
          [] OTHER -> 99

\* decide_compliance(expected_penalty, black_market_premium); one draw.
decide_compliance(a, expected_penalty, black_market_premium, py) ==
    LET effective_risk_tolerance == Mul(a.risk_tolerance, Scale + a.stress_level)
        incentive == Div(black_market_premium, Max2(Scale \div 10, expected_penalty))
        evasion_prob == Sigmoid(2 * incentive + 5 * (effective_risk_tolerance - 70))
        final_evasion_prob == Mul(evasion_prob, Scale - a.compliance_probability)
        py1 == Advance(py)
        decision == IF Random01(py1) < final_evasion_prob THEN "evade" ELSE "comply"
    IN  [agent |-> [a EXCEPT !.last_decision = decision],
         decision |-> decision,
         py |-> py1]

CountEvade(behavior) == Cardinality({k \in 1..Len(behavior) : behavior[k] = "evade"})

NoClamp(x) == x
ClampCompliance(x) == Max2(Scale \div 10, Min2(Scale, x))

\* apply_social_influence(neighbors_behavior).
apply_social_influence(a, neighbors_behavior) ==
    IF neighbors_behavior = <<>> THEN a
    ELSE LET evasion_rate == (CountEvade(neighbors_behavior) * Scale) \div Len(neighbors_behavior)
             adjustment == Mul(evasion_rate - 50, a.social_influence_weight)
         IN  [a EXCEPT !.compliance_probability =
                           ClampCompliance(a.compliance_probability - adjustment)]

\* --------------------------------------------------------------- Policies
\* The members of the PolicyType enum.
PolicyType == {"HOUSING_RENT_SUBSIDY", "LUXURY_ASSET_TAX", "FOOD_PRICE_CEILING"}

HousingRentSubsidy(subsidy_amount, eligibility_threshold) ==
    [type |-> "HOUSING_RENT_SUBSIDY",
     parameters |-> [subsidy_amount |-> subsidy_amount,
                     eligibility_threshold |-> eligibility_threshold]]

LuxuryAssetTax(tax_rate, wealth_threshold) ==
    [type |-> "LUXURY_ASSET_TAX",
     parameters |-> [tax_rate |-> tax_rate, wealth_threshold |-> wealth_threshold]]

FoodPriceCeiling(price_cap, supply_sensitivity) ==
    [type |-> "FOOD_PRICE_CEILING",
     parameters |-> [price_cap |-> price_cap, supply_sensitivity |-> supply_sensitivity]]

\* The policies callers construct: the test's subsidy and the declared defaults.
Policies ==
    {HousingRentSubsidy(800 * Scale, 2000 * Scale),
     LuxuryAssetTax(5, 2000 * Scale),
     FoodPriceCeiling(5 * Scale, 150)}

\* HousingRentSubsidy.apply_intended_effect(agent_income).
housing_intended_effect(p, agent_income) ==
    IF agent_income < p.parameters.eligibility_threshold
    THEN agent_income + p.parameters.subsidy_amount
    ELSE agent_income

\* HousingRentSubsidy.apply_distortion_mechanism(market_demand, housing_supply).
housing_distortion(p, market_demand, housing_supply) ==
    IF housing_supply = 0 THEN Scale
    ELSE Max2(0, (Div(market_demand, housing_supply) - Scale) \div 2)

\* LuxuryAssetTax.calculate_wealth_tax(asset_value).
calculate_wealth_tax(p, asset_value) ==
    IF asset_value > p.parameters.wealth_threshold
    THEN Mul(asset_value - p.parameters.wealth_threshold, p.parameters.tax_rate)
    ELSE 0

\* LuxuryAssetTax.get_capital_flight_probability(asset_value).
get_capital_flight_probability(p, asset_value) ==
    IF asset_value <= p.parameters.wealth_threshold THEN 0
    ELSE LET exposure == (asset_value - p.parameters.wealth_threshold) \div 1000
         IN  Min2(90, Mul(exposure, p.parameters.tax_rate) * 20)

\* FoodPriceCeiling.supply_contraction(market_price).
supply_contraction(p, market_price) ==
    IF p.parameters.price_cap < market_price
    THEN LET gap == Div(market_price - p.parameters.price_cap, market_price)
         IN  Max2(Scale \div 10, Scale - Mul(gap, p.parameters.supply_sensitivity))
    ELSE Scale

\* ------------------------------------------------- Environment queries
get_local_price(env, agent_id) ==
    env.neighborhoods[env.agent_locations[agent_id + 1] + 1].price

get_local_availability(env, agent_id) ==
    env.neighborhoods[env.agent_locations[agent_id + 1] + 1].supply

\* get_neighbors_behavior: the friends' last_decision as it stands now.
get_neighbors_behavior(env, agent_id, agents) ==
    LET friend_ids == env.network[agent_id + 1]
    IN  [k \in 1..Len(friend_ids) |-> agents[friend_ids[k] + 1].last_decision]

ClampPriceOff(x) == x
ClampPrice(x) == Max2(Scale, Min2(1000 * Scale, x))

FloorSupplyOff(x) == x
FloorSupply(x) == Max2(Scale \div 10, x)

\* update_market_dynamics(agents).
update_market_dynamics(env, agents) ==
    LET local_demands == [loc \in 1..env.size |->
            SumSeq([k \in 1..Len(agents) |->
                IF env.agent_locations[k] + 1 = loc THEN agents[k].last_consumption ELSE 0])]
        Update(loc) ==
            LET data == env.neighborhoods[loc]
                demand == local_demands[loc]
                priced == IF data.supply > 0
                          THEN [data EXCEPT
                                  !.price = ClampPrice(Mul(data.price,
                                                90 + Mul(20, Div(demand, data.supply)))),
                                  !.demand = demand]
                          ELSE data
            IN  [priced EXCEPT !.supply = FloorSupply(data.supply - Mul(demand, 5))]
    IN  [env EXCEPT !.neighborhoods = [loc \in 1..env.size |-> Update(loc)]]

\* get_macro_indicators.
get_macro_indicators(env) ==
    [avg_price |-> SumSeq([loc \in 1..env.size |-> env.neighborhoods[loc].price]) \div env.size,
     total_demand |-> SumSeq([loc \in 1..env.size |-> env.neighborhoods[loc].demand])]

\* ------------------------------------------------------------------- Gini
RECURSIVE Insert(_, _)
Insert(x, s) ==
    IF s = <<>> THEN <<x>>
    ELSE IF x <= Head(s) THEN <<x>> \o s ELSE <<Head(s)>> \o Insert(x, Tail(s))

RECURSIVE Sorted(_)
Sorted(s) == IF s = <<>> THEN <<>> ELSE Insert(Head(s), Sorted(Tail(s)))

\* a / b in hundredths, one decimal digit at a time (a * Scale can exceed
\* the integers TLC holds).
Ratio(a, b) == ((a * 10) \div b) * 10 + (((a * 10) % b) * 10) \div b

\* sorted(incomes).
Unsorted(s) == s
SortIncomes(s) == Sorted(s)

\* calculate_gini(incomes): the quotient is evaluated only when the total
\* is positive.
calculate_gini(incomes) ==
    LET sorted == SortIncomes(incomes)
        n == Len(sorted)
        total == SumSeq(sorted)
        weighted == SumSeq([k \in 1..n |-> (2 * k - n - 1) * sorted[k]])
    IN  IF total > 0 THEN Ratio(weighted, n * total) ELSE 0

\* ------------------------------------------------------ SimulationEngine
\* next((p for p in active_policies if p.type == PolicyType.<name>), None):
\* the attribute PolicyType.<name> is looked up once per policy examined, and
\* the lookup of a name the enum does not define raises AttributeError.
FindPolicy(policies, name) ==
    IF policies = <<>> THEN [raised |-> "none", found |-> FALSE, at |-> 0]
    ELSE IF name \notin PolicyType THEN [raised |-> "AttributeError", found |-> FALSE, at |-> 0]
    ELSE LET hits == {k \in 1..Len(policies) : policies[k].type = name}
         IN  IF hits = {} THEN [raised |-> "none", found |-> FALSE, at |-> 0]
             ELSE [raised |-> "none", found |-> TRUE,
                   at |-> CHOOSE k \in hits : \A j \in hits : k <= j]

\* step(), lines 51-56: every active housing subsidy raises income and wealth.
RECURSIVE ApplyIntended(_, _, _)
ApplyIntended(a, policies, k) ==
    IF k > Len(policies) THEN a
    ELSE IF policies[k].type = "HOUSING_RENT_SUBSIDY"
         THEN LET new_income == housing_intended_effect(policies[k], a.income)
              IN  ApplyIntended([a EXCEPT !.wealth = a.wealth + (new_income - a.income),
                                          !.income = new_income],
                                policies, k + 1)
         ELSE ApplyIntended(a, policies, k + 1)

\* step(), lines 75-84: wealth tax, then the capital-flight draw on np.random.
ApplyLuxury(a, luxury, policies, np) ==
    IF ~luxury.found THEN [agent |-> a, np |-> np]
    ELSE LET p == policies[luxury.at]
             taxed == [a EXCEPT !.wealth = a.wealth - calculate_wealth_tax(p, a.wealth)]
             np1 == Advance(np)
         IN  IF Random01(np1) < get_capital_flight_probability(p, taxed.wealth)
             THEN [agent |-> [taxed EXCEPT !.wealth = taxed.wealth \div 2,
                                           !.stress_level = Min2(Scale, taxed.stress_level + 20)],
                   np |-> np1]
             ELSE [agent |-> taxed, np |-> np1]

\* step(), lines 93-94: total_evaded grows by one per "evade" decision.
EvadedIncrementInverted(decision) == IF decision = "comply" THEN 1 ELSE 0
EvadedIncrement(decision) == IF decision = "evade" THEN 1 ELSE 0

\* step(), lines 86-96 for one agent: social influence from the friends'
\* decisions as they stand, then the compliance decision.
InfluenceAndComply(l, agents, i, env, base_penalty, price, py) ==
    decide_compliance(
        apply_social_influence(l.agent,
            get_neighbors_behavior(env, l.agent.id, [agents EXCEPT ![i] = l.agent])),
        base_penalty, Mul(price, 60), py)

\* step(), lines 74-96 for one agent, from the consumption result c.
TaxAndComply(c, l, agents, i, env, base_penalty, price) ==
    [d |-> InfluenceAndComply(l, agents, i, env, base_penalty, price, c.py), np |-> l.np]

\* step(), lines 58-96 for one agent whose income is settled.
ConsumeAndComply(a1, agents, i, env, policies, luxury, base_penalty, r, c) ==
    TaxAndComply(c, ApplyLuxury(c.agent, luxury, policies, r.np),
                 agents, i, env, base_penalty, get_local_price(env, a1.id))

\* step(), lines 47-96 for the agent at index i.  fuel_tax_policy is None
\* whenever the loop is reached, so its branches do nothing.
ProcessAgent(a1, agents, i, env, policies, luxury, base_penalty, r) ==
    ConsumeAndComply(a1, agents, i, env, policies, luxury, base_penalty, r,
        decide_consumption(a1, get_local_price(env, a1.id),
                           get_local_availability(env, a1.id), r.py))

\* step(), lines 46-96: the agents in population order.
RECURSIVE AgentLoop(_, _, _, _, _, _, _, _, _)
LoopNext(i, agents, env, policies, luxury, base_penalty, x, total_evaded, total_stress) ==
    AgentLoop(i + 1, [agents EXCEPT ![i] = x.d.agent], env, policies, luxury,
              base_penalty, [py |-> x.d.py, np |-> x.np],
              total_evaded + EvadedIncrement(x.d.decision),
              total_stress + x.d.agent.stress_level)

AgentLoop(i, agents, env, policies, luxury, base_penalty, r, total_evaded, total_stress) ==
    IF i > Len(agents)
    THEN [agents |-> agents, rng |-> r,
          total_evaded |-> total_evaded, total_stress |-> total_stress]
    ELSE LoopNext(i, agents, env, policies, luxury, base_penalty,
             ProcessAgent(ApplyIntended(update_income(agents[i], agents[i].income),
                                        policies, 1),
                          agents, i, env, policies, luxury, base_penalty, r),
             total_evaded, total_stress)

\* step(), lines 110-124: the distortions, policy by policy.
RECURSIVE ApplyDistortions(_, _, _)
ApplyDistortions(env, policies, k) ==
    IF k > Len(policies) THEN env
    ELSE LET p == policies[k]
             Distort(data) ==
                 IF p.type = "HOUSING_RENT_SUBSIDY"
                 THEN [data EXCEPT !.price = Mul(data.price,
                          Scale + housing_distortion(p, data.demand, data.supply))]
                 ELSE IF p.type = "FOOD_PRICE_CEILING"
                 THEN [data EXCEPT !.supply = Max2(Scale \div 10,
                          Mul(data.supply, supply_contraction(p, data.price)))]
                 ELSE data
         IN  ApplyDistortions(
                 [env EXCEPT !.neighborhoods =
                     [loc \in 1..env.size |-> Distort(env.neighborhoods[loc])]],
                 policies, k + 1)

\* The enforcement penalty of lines 37-40.
BasePenalty(eng) ==
    2 * Scale + 150 * Len(eng.active_policies)
    + (IF eng.history # <<>>
       THEN 10 * (Scale - eng.history[Len(eng.history)].compliance_rate)
       ELSE 0)

\* step(), lines 126-140: the record of the step.
StepData(eng, loop, env1) ==
    [step |-> eng.current_step + 1,
     avg_price |-> get_macro_indicators(env1).avg_price,
     total_demand |-> get_macro_indicators(env1).total_demand,
     gini |-> calculate_gini([k \in 1..Len(loop.agents) |-> loop.agents[k].income]),
     compliance_rate |-> Scale - (loop.total_evaded * Scale) \div Len(loop.agents),
     avg_stress |-> loop.total_stress \div Len(loop.agents)]

\* step(), lines 126-140, after the market update and the distortions: with
\* no agents the division at line 136 raises and nothing is appended.
StepFinish(eng, loop, env1) ==
    IF Len(loop.agents) = 0
    THEN [eng |-> [eng EXCEPT !.current_step = eng.current_step + 1,
                              !.agents = loop.agents, !.env = env1],
          rng |-> loop.rng, raised |-> "ZeroDivisionError", ret |-> <<>>]
    ELSE [eng |-> [eng EXCEPT !.current_step = eng.current_step + 1,
                              !.agents = loop.agents, !.env = env1,
                              !.history = Append(eng.history, StepData(eng, loop, env1))],
          rng |-> loop.rng, raised |-> "none", ret |-> <<StepData(eng, loop, env1)>>]

\* step(), lines 105-140, from the result of the agent loop.
StepMarket(eng, loop) ==
    StepFinish(eng, loop,
        ApplyDistortions(update_market_dynamics(eng.env, loop.agents),
                         eng.active_policies, 1))

\* step(): the engine and the streams after the call, the exception it
\* raised (if any) and the record it returned.
StepFn(eng, r) ==
    IF FindPolicy(eng.active_policies, "FUEL_TAX_REBATE").raised # "none"
    THEN [eng |-> [eng EXCEPT !.current_step = eng.current_step + 1], rng |-> r,
          raised |-> FindPolicy(eng.active_policies, "FUEL_TAX_REBATE").raised,
          ret |-> <<>>]
    ELSE StepMarket(eng,
             AgentLoop(1, eng.agents, eng.env, eng.active_policies,
                       FindPolicy(eng.active_policies, "LUXURY_ASSET_TAX"),
                       BasePenalty(eng), r, 0, 0))

\* run(steps): step() repeated; an exception from step() ends the call.
RECURSIVE RunFn(_, _, _, _)
RunNext(s, steps, results) ==
    IF s.raised # "none"
    THEN [eng |-> s.eng, rng |-> s.rng, raised |-> s.raised, ret |-> <<>>]
    ELSE RunFn(s.eng, s.rng, steps - 1, results \o s.ret)

RunFn(eng, r, steps, results) ==
    IF steps <= 0 THEN [eng |-> eng, rng |-> r, raised |-> "none", ret |-> results]
    ELSE RunNext(StepFn(eng, r), steps, results)

\* ------------------------------------------------------- EmergenceDetector
\* np.diff(series).
Diff(series) == [k \in 1..(Len(series) - 1) |-> series[k + 1] - series[k]]

\* series[-k:] for k >= 1, and series[:-k] for k >= 1.
LastK(series, k) ==
    IF k >= Len(series) THEN series
    ELSE SubSeq(series, Len(series) - k + 1, Len(series))
ButLastK(series, k) ==
    IF k >= Len(series) THEN <<>> ELSE SubSeq(series, 1, Len(series) - k)

\* np.mean of a non-empty series.
Mean(series) == SumSeq(series) \div Len(series)

\* The integer square root, by bisection on lo..hi.
RECURSIVE IsqrtIn(_, _, _)
IsqrtIn(n, lo, hi) ==
    IF lo >= hi THEN lo
    ELSE LET mid == (lo + hi + 1) \div 2
         IN  IF mid * mid <= n THEN IsqrtIn(n, mid, hi) ELSE IsqrtIn(n, lo, mid - 1)

\* np.std of a non-empty series (population standard deviation).
Std(series) ==
    LET m == Mean(series)
        var == SumSeq([k \in 1..Len(series) |-> (series[k] - m) * (series[k] - m)])
                   \div Len(series)
    IN  IsqrtIn(var, 0, Min2(var, 40000))

\* round(x, ndigits) for ndigits in {1, 2}: the nearest multiple of
\* 10^-ndigits, ties to the even one.
Round(x, ndigits) ==
    LET q == IF ndigits = 1 THEN Scale \div 10 ELSE 1
        lo == (x \div q) * q
        r == x - lo
    IN  IF 2 * r < q THEN lo
        ELSE IF 2 * r > q THEN lo + q
        ELSE IF (lo \div q) % 2 = 0 THEN lo ELSE lo + q

\* detect_acceleration(series): the mean of the last window_size second
\* differences over the mean of the series plus 1e-6.
detect_acceleration(series, window_size) ==
    LET diff2 == Diff(Diff(series))
    IN  IF Len(series) < 3 THEN 0
        ELSE IF Mean(series) = 0 THEN Mean(LastK(diff2, window_size)) * 1000000
        ELSE Div(Mean(LastK(diff2, window_size)), Mean(series))

\* detect_volatility_burst(series).
detect_volatility_burst(series, window_size) ==
    LET recent == Std(LastK(series, window_size))
        historical == Std(ButLastK(series, window_size))
    IN  IF historical = 0 THEN 0 ELSE Max2(0, Div(recent, historical) - Scale)

\* detect_sudden_drop(series).
detect_sudden_drop(series, window_size) ==
    IF Len(series) < 2 THEN 0
    ELSE Max2(0, Mean(ButLastK(series, window_size)) - Mean(LastK(series, window_size)))

\* detect_trend(series): the least-squares slope over x = 0..n-1; a nonzero
\* slope keeps its sign however small it is.
detect_trend(series) ==
    LET n == Len(series)
        sx == SumSeq([k \in 1..n |-> k - 1])
        sxx == SumSeq([k \in 1..n |-> (k - 1) * (k - 1)])
        sy == SumSeq(series)
        sxy == SumSeq([k \in 1..n |-> (k - 1) * series[k]])
        num == n * sxy - sx * sy
        den == n * sxx - sx * sx
    IN  IF num = 0 THEN 0
        ELSE IF num > 0 THEN Max2(1, num \div den)
        ELSE Min2(-1, -((-num) \div den))

PriceSpiral ==
    [type |-> "Price Spiral", severity |-> "High",
     mechanism |-> "Housing subsidies and local supply constraints combined to drive nonlinear price inflation."]
MarketInstability ==
    [type |-> "Market Instability", severity |-> "Medium",
     mechanism |-> "High variance in prices indicates the system is losing equilibrium."]
ComplianceCollapse ==
    [type |-> "Compliance Collapse", severity |-> "Critical",
     mechanism |-> "Policy incentives or peer influence triggered a phase transition into informal market activity."]
StressDecoupling ==
    [type |-> "Stress Decoupling", severity |-> "Medium",
     mechanism |-> "Inequality is falling, but agent frustration is rising due to shortages or price caps."]

\* analyze(), line 16: the history is too short to analyse.
TooShortInclusive(history, window_size) == Len(history) <= window_size * 2
TooShort(history, window_size) == Len(history) < window_size * 2

\* analyze(), line 30: the acceleration raises the alert.
IsSpiralAny(price_accel) == price_accel > 0
IsSpiral(price_accel) == price_accel > Scale \div 2

\* analyze(), lines 25-78, from the three price and compliance signals.
AnalyzeSignals(price_accel, price_volatility, compliance_drop, decoupled) ==
    [unintended_consequence_index |->
         Round(Min2(100 * Scale,
                    (IF IsSpiral(price_accel) THEN price_accel * 40 ELSE 0)
                    + (IF price_volatility > 30 THEN price_volatility * 20 ELSE 0)
                    + (IF compliance_drop > 20 THEN compliance_drop * 50 ELSE 0)
                    + (IF decoupled THEN 20 * Scale ELSE 0)), 1),
     alerts |->
         (IF IsSpiral(price_accel) THEN <<PriceSpiral>> ELSE <<>>)
         \o (IF price_volatility > 30 THEN <<MarketInstability>> ELSE <<>>)
         \o (IF compliance_drop > 20 THEN <<ComplianceCollapse>> ELSE <<>>)
         \o (IF decoupled THEN <<StressDecoupling>> ELSE <<>>),
     metrics |-> [price_acceleration |-> Round(price_accel, 2),
                  volatility |-> Round(price_volatility, 2),
                  compliance_instability |-> Round(compliance_drop, 2)]]

Column(history, key) == [k \in 1..Len(history) |-> history[k][key]]

\* EmergenceDetector(window_size).analyze(history).
analyze(history, window_size) ==
    IF TooShort(history, window_size)
    THEN [unintended_consequence_index |-> 0, alerts |-> <<>>]
    ELSE AnalyzeSignals(
             detect_acceleration(Column(history, "avg_price"), window_size),
             detect_volatility_burst(Column(history, "avg_price"), window_size),
             detect_sudden_drop(Column(history, "compliance_rate"), window_size),
             detect_trend(Column(history, "avg_stress")) > 0
                 /\ detect_trend(Column(history, "gini")) < 0)

\* -------------------------------------------------- CounterfactualAnalyzer
\* f"policy_{i}_{policy.type.name}"
ResultKey(i, policy) == <<"policy", i, policy.type>>

\* compare_policies, lines 29-37: the entry of one policy's run.  history[-1]
\* of an empty history raises IndexError.
CompareEntry(history, policy) ==
    [history |-> history,
     final_compliance |-> history[Len(history)].compliance_rate,
     final_inequality |-> history[Len(history)].gini,
     final_price |-> history[Len(history)].avg_price,
     final_stress |-> history[Len(history)].avg_stress,
     policy_params |-> policy.parameters]

\* compare_policies, lines 21-37, for the policies from index i on: a fresh
\* engine with the analyzer's seed, the policy added, run(steps).  An
\* exception of the engine ends the call.
RECURSIVE CompareLoop(_, _, _, _, _, _, _)
CompareAfterRun(i, policies, population_size, seed, steps, run, results) ==
    IF run.raised # "none"
    THEN [rng |-> run.rng, raised |-> run.raised, results |-> <<>>]
    ELSE IF run.ret = <<>>
    THEN [rng |-> run.rng, raised |-> "IndexError", results |-> <<>>]
    ELSE CompareLoop(i + 1, policies, population_size, seed, steps, run.rng,
             (ResultKey(i - 1, policies[i]) :> CompareEntry(run.ret, policies[i]))
                 @@ results)

CompareAfterInit(i, policies, population_size, seed, steps, e, results) ==
    IF e.raised # "none"
    THEN [rng |-> e.rng, raised |-> e.raised, results |-> <<>>]
    ELSE CompareAfterRun(i, policies, population_size, seed, steps,
             RunFn([e.eng EXCEPT !.active_policies = <<policies[i]>>], e.rng, steps, <<>>),
             results)

CompareLoop(i, policies, population_size, seed, steps, r, results) ==
    IF i > Len(policies) THEN [rng |-> r, raised |-> "none", results |-> results]
    ELSE CompareAfterInit(i, policies, population_size, seed, steps,
             EngineInit(population_size, seed, r), results)

\* CounterfactualAnalyzer(population_size, seed).compare_policies(policies, steps)
compare_policies(population_size, seed, policies, steps, r) ==
    CompareLoop(1, policies, population_size, seed, steps, r, <<>>)

\* ----------------------------------------------------------- main.py (API)
\* SimulationEngine's default seed and EmergenceDetector's default window.
DefaultSeed == 42
DefaultWindow == 6

\* request.params.get(name, default)
Get(params, name, default) == IF name \in DOMAIN params THEN params[name] ELSE default

\* run_simulation, lines 37-51: the policy the request names, if any.  The
\* name FuelTaxWithRebate is bound to no class of policy_definitions, so the
\* branch that calls it raises.
PolicyFor(request) ==
    CASE request.policy_type = "housing_rent_subsidy" ->
             [raised |-> "none",
              policy |-> <<HousingRentSubsidy(
                             Get(request.params, "subsidy_amount", 200 * Scale),
                             Get(request.params, "eligibility_threshold", 1000 * Scale))>>]
      [] request.policy_type = "fuel_tax_rebate" ->
             [raised |-> "NameError", policy |-> <<>>]
      [] request.policy_type = "food_price_ceiling" ->
             [raised |-> "none",
              policy |-> <<FoodPriceCeiling(Get(request.params, "price_cap", 5 * Scale), 150)>>]
      [] OTHER -> [raised |-> "none", policy |-> <<>>]

\* raise HTTPException(status_code=500, detail=str(e))
Http500(e, r) == [rng |-> r, response |-> [status |-> 500, detail |-> e]]

\* build_explanation, lines 66-108: the messages and the recommendations.
PriceMessage(price_accel, vol) ==
    IF price_accel > Scale \div 2 THEN <<[msg |-> "Rapid price acceleration detected", value |-> price_accel]>>
    ELSE IF vol > 30 THEN <<[msg |-> "Elevated price volatility observed", value |-> vol]>>
    ELSE <<[msg |-> "Price behavior appears within expected bounds", value |-> 0]>>

build_explanation(analysis, history, metrics) ==
    [text |->
         PriceMessage(metrics.price_acceleration, metrics.volatility)
         \o (IF metrics.compliance_instability > 10
             THEN <<[msg |-> "Compliance instability detected", value |-> 0]>>
             ELSE <<[msg |-> "Compliance levels are stable", value |-> 0]>>)
         \o (IF \E k \in 1..Len(analysis.alerts) : analysis.alerts[k].type = "Stress Decoupling"
             THEN <<[msg |-> "Inequality is improving while stress rises", value |-> 0]>>
             ELSE <<>>)
         \o (IF history = <<>> THEN <<>>
             ELSE <<[msg |-> "Latest avg price", value |-> Round(history[Len(history)].avg_price, 2)],
                    [msg |-> "Latest compliance",
                     value |-> Round(history[Len(history)].compliance_rate, 2)]>>),
     recommendations |->
         (IF metrics.price_acceleration > Scale \div 2
          THEN <<"Reduce subsidy magnitude or increase housing supply interventions">>
          ELSE IF metrics.volatility > 30
          THEN <<"Consider phased implementation and monitoring">>
          ELSE <<>>)
         \o (IF metrics.compliance_instability > 10
             THEN <<"Increase enforcement visibility and reduce incentives for evasion">>
             ELSE <<>>)
         \o (IF \E k \in 1..Len(analysis.alerts) : analysis.alerts[k].type = "Stress Decoupling"
             THEN <<"Target supply-side measures or temporary price supports">>
             ELSE <<>>)]

\* analysis.get("metrics", {}) and the three metrics.get(name, 0).
MetricsOf(analysis) ==
    IF "metrics" \in DOMAIN analysis THEN analysis.metrics
    ELSE [price_acceleration |-> 0, volatility |-> 0, compliance_instability |-> 0]

\* run_simulation, lines 58-118: the response to a completed run.
Respond(run, analysis, explain) ==
    [rng |-> run.rng,
     response |-> [status |-> 200,
                   history |-> run.ret,
                   analysis |-> analysis,
                   neighborhoods |-> run.eng.env.neighborhoods,
                   explanation |-> explain.text,
                   recommendations |-> explain.recommendations]]

SimAfterAnalysis(run, analysis) ==
    Respond(run, analysis, build_explanation(analysis, run.ret, MetricsOf(analysis)))

SimAfterRun(run) ==
    IF run.raised # "none" THEN Http500(run.raised, run.rng)
    ELSE SimAfterAnalysis(run, analyze(run.ret, DefaultWindow))

SimAfterPolicy(request, e, pol) ==
    IF pol.raised # "none" THEN Http500(pol.raised, e.rng)
    ELSE SimAfterRun(RunFn([e.eng EXCEPT !.active_policies = pol.policy],
                           e.rng, request.steps, <<>>))

SimAfterInit(request, e) ==
    IF e.raised # "none" THEN Http500(e.raised, e.rng)
    ELSE SimAfterPolicy(request, e, PolicyFor(request))

\* POST /simulate: run_simulation(request).
run_simulation(request, r) ==
    SimAfterInit(request, EngineInit(request.population_size, DefaultSeed, r))

\* compare, lines 128-131: one subsidy per housing request; the parameters
\* are the constructor's keyword arguments, and a name it does not take
\* raises TypeError.
RECURSIVE ComparePoliciesOf(_, _, _)
ComparePoliciesOf(requests, k, acc) ==
    IF k > Len(requests) THEN [raised |-> "none", policies |-> acc]
    ELSE IF requests[k].policy_type # "housing_rent_subsidy"
    THEN ComparePoliciesOf(requests, k + 1, acc)
    ELSE IF ~(DOMAIN requests[k].params \subseteq {"subsidy_amount", "eligibility_threshold"})
    THEN [raised |-> "TypeError", policies |-> acc]
    ELSE ComparePoliciesOf(requests, k + 1,
             Append(acc, HousingRentSubsidy(
                 Get(requests[k].params, "subsidy_amount", 200 * Scale),
                 Get(requests[k].params, "eligibility_threshold", 1000 * Scale))))

CompareRespond(c) ==
    IF c.raised # "none" THEN Http500(c.raised, c.rng)
    ELSE [rng |-> c.rng, response |-> [status |-> 200, results |-> c.results]]

CompareAfterPolicies(pols, r) ==
    IF pols.raised # "none" THEN Http500(pols.raised, r)
    ELSE CompareRespond(compare_policies(100, DefaultSeed, pols.policies, 24, r))

\* POST /compare: compare_policies(request); an exception it lets through
\* is answered with status 500.
compare_endpoint(requests, r) ==
    CompareAfterPolicies(ComparePoliciesOf(requests, 1, <<>>), r)

\* ------------------------------------------------------------------ state
VARIABLES
    rng,        \* the process-global streams of `random` and `numpy.random`
    engines,    \* the SimulationEngine objects the caller holds
    solo,       \* per engine: the same calls made in a process of their own
    lastUser,   \* the engine whose constructor or step() ran last
    disturbed,  \* per engine: another engine ran between its calls
    addedAt,    \* per engine: current_step at each add_policy call
    outcome,    \* the last call: what was asked and how it ended
    detector,   \* an EmergenceDetector, the history it is given, its analysis
    giniCall,   \* a list of incomes and what calculate_gini returns for it
    pending     \* the request the API is reading: its endpoint and its body

vars ==
    <<rng, engines, solo, lastUser, disturbed, addedAt, outcome, detector, giniCall, pending>>
engineVars == <<rng, engines, solo, lastUser, disturbed, addedAt, outcome>>

FreshRng == [py |-> 0, np |-> 0]

NoEngine == [seed |-> 0, agents |-> <<>>, env |-> NewEnvironment(0),
             active_policies |-> <<>>, history |-> <<>>, current_step |-> -1]

Alive(e) == engines[e] # NoEngine

\* step() calls made so far, over all engines (each call increments current_step).
StepCalls == SumSeq([k \in 1..2 |->
                 LET e == IF k = 1 THEN "A" ELSE "B"
                 IN  IF Alive(e) THEN engines[e].current_step ELSE 0])

\* EmergenceDetector(window_size), before analyze() is called.
NewDetector(window_size) ==
    [window_size |-> window_size, history |-> <<>>, analysis |-> <<>>]

NoOutcome ==
    [op |-> "none", eng |-> "-", arg |-> 0, before |-> 0, raised |-> "none", ret |-> <<>>]

InitEngines ==
    /\ rng = FreshRng
    /\ engines = [e \in EngineIds |-> NoEngine]
    /\ solo = [e \in EngineIds |-> [eng |-> NoEngine, rng |-> FreshRng]]
    /\ lastUser = "-"
    /\ disturbed = [e \in EngineIds |-> FALSE]
    /\ addedAt = [e \in EngineIds |-> <<>>]
    /\ outcome = NoOutcome

NoGiniCall == [incomes |-> <<>>, result |-> <<>>]
NoRequest == [endpoint |-> "-", body |-> <<>>]
Init ==
    /\ InitEngines
    /\ detector = NewDetector(DefaultWindow)
    /\ giniCall = NoGiniCall
    /\ pending = NoRequest

\* engine = SimulationEngine(population_size=n, seed=seed)
Construct(e, n, seed) ==
    /\ ~Alive(e)
    /\ LET r == EngineInit(n, seed, rng)
           alone == EngineInit(n, seed, FreshRng)
       IN  /\ rng' = r.rng
           /\ outcome' = [op |-> "construct", eng |-> e, arg |-> n, before |-> 0,
                          raised |-> r.raised, ret |-> <<>>]
           /\ IF r.raised = "none"
              THEN /\ engines' = [engines EXCEPT ![e] = r.eng]
                   /\ solo' = [solo EXCEPT ![e] = [eng |-> alone.eng, rng |-> alone.rng]]
                   /\ lastUser' = e
              ELSE /\ UNCHANGED <<engines, solo>>
                   /\ lastUser' = "-"
           /\ UNCHANGED <<disturbed, addedAt, detector, giniCall, pending>>

\* engine.add_policy(p)
AddPolicy(e, p) ==
    /\ Alive(e)
    /\ Len(engines[e].active_policies) < MaxPolicies
    /\ engines' = [engines EXCEPT ![e].active_policies = Append(@, p)]
    /\ solo' = [solo EXCEPT ![e].eng.active_policies = Append(@, p)]
    /\ addedAt' = [addedAt EXCEPT ![e] = Append(@, engines[e].current_step)]
    /\ outcome' = [op |-> "add_policy", eng |-> e, arg |-> 0,
                   before |-> engines[e].current_step, raised |-> "none", ret |-> <<>>]
    /\ UNCHANGED <<rng, lastUser, disturbed, detector, giniCall, pending>>

\* The effect of step() or run() on the state: s is the call's result on
\* the engine, a the result of the same call on the engine run alone.
Called(e, op, arg, s, a) ==
    /\ rng' = s.rng
    /\ engines' = [engines EXCEPT ![e] = s.eng]
    /\ solo' = [solo EXCEPT ![e] = [eng |-> a.eng, rng |-> a.rng]]
    /\ outcome' = [op |-> op, eng |-> e, arg |-> arg,
                   before |-> engines[e].current_step,
                   raised |-> s.raised, ret |-> s.ret]
    /\ UNCHANGED <<detector, giniCall, pending>>

\* engine.step()
Step(e) ==
    /\ Alive(e)
    /\ StepCalls < MaxSteps
    /\ Called(e, "step", 1, StepFn(engines[e], rng), StepFn(solo[e].eng, solo[e].rng))
    /\ disturbed' = [disturbed EXCEPT ![e] = @ \/ lastUser # e]
    /\ lastUser' = e
    /\ UNCHANGED addedAt

\* engine.run(steps)
Run(e, steps) ==
    /\ Alive(e)
    /\ StepCalls + steps <= MaxSteps
    /\ Called(e, "run", steps, RunFn(engines[e], rng, steps, <<>>),
              RunFn(solo[e].eng, solo[e].rng, steps, <<>>))
    /\ disturbed' = [disturbed EXCEPT ![e] = @ \/ (steps > 0 /\ lastUser # e)]
    /\ lastUser' = IF steps > 0 THEN e ELSE lastUser
    /\ UNCHANGED addedAt

\* The policy the two-engine caller adds (the test's subsidy).
PairPolicies == {HousingRentSubsidy(800 * Scale, 2000 * Scale)}

\* One caller holding one engine.
Next ==
    \/ \E n \in PopSizes, seed \in Seeds : Construct("A", n, seed)
    \/ \E p \in Policies : AddPolicy("A", p)
    \/ Step("A")
    \/ \E steps \in 0..MaxSteps : Run("A", steps)

Spec == Init /\ [][Next]_vars

\* A caller holding two engines in one process, its calls in any order.
NextPair ==
    \/ \E e \in EngineIds, n \in PairSizes, seed \in Seeds : Construct(e, n, seed)
    \/ \E e \in EngineIds, p \in PairPolicies : AddPolicy(e, p)
    \/ \E e \in EngineIds : Step(e)

SpecPair == Init /\ [][NextPair]_vars

\* The window sizes and the records of the histories handed to analyze().
WindowSizes == {1, 2}
SyntheticRecords ==
    {[step |-> 0, avg_price |-> p * Scale, total_demand |-> 0, gini |-> m.gini,
      compliance_rate |-> m.compliance_rate, avg_stress |-> m.avg_stress] :
        p \in {1, 2, 4, 10},
        m \in {[gini |-> 30, compliance_rate |-> Scale, avg_stress |-> 0],
               [gini |-> 20, compliance_rate |-> Scale \div 2, avg_stress |-> 50]}}

\* A finished history grows by one record.
Record(r) ==
    /\ Len(detector.history) < MaxHistory
    /\ detector' = [detector EXCEPT
                        !.history = Append(@, [r EXCEPT !.step = Len(detector.history) + 1]),
                        !.analysis = <<>>]
    /\ UNCHANGED <<engineVars, giniCall, pending>>

\* analysis = detector.analyze(history)
Analyze ==
    /\ detector.analysis = <<>>
    /\ detector' = [detector EXCEPT
                        !.analysis = <<analyze(detector.history, detector.window_size)>>]
    /\ UNCHANGED <<engineVars, giniCall, pending>>

InitDetect ==
    /\ InitEngines
    /\ \E w \in WindowSizes : detector = NewDetector(w)
    /\ giniCall = NoGiniCall
    /\ pending = NoRequest

NextDetect ==
    \/ \E r \in SyntheticRecords : Record(r)
    \/ Analyze

SpecDetect == InitDetect /\ [][NextDetect]_vars

\* The incomes handed to calculate_gini: none, half a unit, and up.
IncomeValues == {0, Scale \div 2, Scale, 10 * Scale, 1000 * Scale}

\* incomes.append(x)
AddIncome(x) ==
    /\ Len(giniCall.incomes) < MaxIncomes
    /\ giniCall' = [incomes |-> Append(giniCall.incomes, x), result |-> <<>>]
    /\ UNCHANGED <<engineVars, detector, pending>>

\* SimulationEngine.calculate_gini(incomes)
Gini ==
    /\ giniCall.result = <<>>
    /\ giniCall' = [giniCall EXCEPT !.result = <<calculate_gini(giniCall.incomes)>>]
    /\ UNCHANGED <<engineVars, detector, pending>>

NextGini ==
    \/ \E x \in IncomeValues : AddIncome(x)
    \/ Gini

SpecGini == Init /\ [][NextGini]_vars

\* The effect of a call that holds no engine of the caller's: the streams
\* move on and the call's result is what the caller sees.
Answered(op, arg, r, raised, ret) ==
    /\ rng' = r
    /\ outcome' = [op |-> op, eng |-> "-", arg |-> arg, before |-> 0,
                   raised |-> raised, ret |-> ret]
    /\ pending' = NoRequest
    /\ UNCHANGED <<engines, solo, lastUser, disturbed, addedAt, detector, giniCall>>

\* The lists of up to two policies handed to the analyzer.
PolicyLists ==
    {<<>>} \cup {<<p>> : p \in Policies} \cup {<<p, q>> : p \in Policies, q \in Policies}

\* CounterfactualAnalyzer(n, seed).compare_policies(policies, steps)
ComparePolicies(n, seed, policies, steps) ==
    LET c == compare_policies(n, seed, policies, steps, rng)
    IN  Answered("compare_policies",
                 [population_size |-> n, seed |-> seed, policies |-> policies, steps |-> steps],
                 c.rng, c.raised, c.results)

NextCompare ==
    \E seed \in Seeds, policies \in PolicyLists, steps \in 0..MaxSteps :
        ComparePolicies(5, seed, policies, steps)

SpecCompare == Init /\ [][NextCompare]_vars

\* The requests clients send: the identifiers run_simulation knows, two it
\* does not, and parameter mappings for a subsidy and for a price cap.
RequestTypes ==
    {"housing_rent_subsidy", "fuel_tax_rebate", "food_price_ceiling",
     "luxury_asset_tax", "carbon_tax"}
RequestParams ==
    {[subsidy_amount |-> 800 * Scale, eligibility_threshold |-> 2000 * Scale],
     [price_cap |-> 5 * Scale]}
SimulateRequests ==
    [policy_type : RequestTypes, params : RequestParams,
     steps : 0..MaxSteps, population_size : {1, 5, 20}]

\* The elements of a /compare body leave steps and population_size at the
\* defaults of SimulationRequest.
CompareRequests ==
    [policy_type : {"housing_rent_subsidy", "luxury_asset_tax", "carbon_tax"},
     params : RequestParams, steps : {24}, population_size : {100}]

\* A client sends a request: one object to /simulate, or one more element
\* of the list sent to /compare.
Send(endpoint, request) ==
    /\ \/ pending = NoRequest
       \/ endpoint = "compare" /\ pending.endpoint = "compare" /\ Len(pending.body) < 2
    /\ pending' = [endpoint |-> endpoint, body |-> Append(pending.body, request)]
    /\ outcome' = NoOutcome
    /\ UNCHANGED <<rng, engines, solo, lastUser, disturbed, addedAt, detector, giniCall>>

\* POST /simulate
Simulate ==
    /\ pending.endpoint = "simulate"
    /\ LET s == run_simulation(pending.body[1], rng)
       IN  Answered("simulate", pending.body[1], s.rng,
                    IF s.response.status = 200 THEN "none" ELSE s.response.detail,
                    <<s.response>>)

\* POST /compare (the body may be the empty list)
Compare ==
    /\ pending.endpoint # "simulate"
    /\ LET s == compare_endpoint(pending.body, rng)
       IN  Answered("compare", pending.body, s.rng,
                    IF s.response.status = 200 THEN "none" ELSE s.response.detail,
                    <<s.response>>)

NextApi ==
    \/ \E request \in SimulateRequests : Send("simulate", request)
    \/ \E request \in CompareRequests : Send("compare", request)
    \/ Simulate
    \/ Compare

SpecApi == Init /\ [][NextApi]_vars
\* ------------------------------------------------------------- properties
History(e) == engines[e].history
Population(e) == Len(engines[e].agents)
Prices(e) == {engines[e].env.neighborhoods[loc].price : loc \in 1..engines[e].env.size}
Supplies(e) == {engines[e].env.neighborhoods[loc].supply : loc \in 1..engines[e].env.size}
InUnit(x) == 0 <= x /\ x <= Scale
InPriceRange(x) == Scale <= x /\ x <= 1000 * Scale
IsPrefix(s, t) == Len(s) <= Len(t) /\ SubSeq(t, 1, Len(s)) = s
Evaders(e) == Cardinality({k \in 1..Population(e) : engines[e].agents[k].last_decision = "evade"})

\* Two engines given the same arguments, the same policies at the same
\* steps and the same number of step() calls, each run with no call of
\* another engine in between.
SameRun(a, b) ==
    /\ Alive(a) /\ Alive(b)
    /\ Population(a) > 0
    /\ Population(a) = Population(b)
    /\ engines[a].seed = engines[b].seed
    /\ engines[a].active_policies = engines[b].active_policies
    /\ addedAt[a] = addedAt[b]
    /\ engines[a].current_step = engines[b].current_step
    /\ ~disturbed[a] /\ ~disturbed[b]

\* C1: two engines constructed with the same population size and seed, given
\* the same policy sequence and stepped the same number of times, each one
\* constructed and run before the other is touched, hold identical histories.
C1_Determinism ==
    \A a, b \in EngineIds : SameRun(a, b) => History(a) = History(b)

C1_Witness ==
    \E a, b \in EngineIds : a # b /\ SameRun(a, b) /\ Len(History(a)) >= 1

\* C2: with two engines constructed, whatever calls of one come between the
\* calls of the other, each holds the history it produces when constructed
\* and run alone.
C2_Isolation ==
    (\A e \in EngineIds : Alive(e)) =>
        \A e \in EngineIds : History(e) = solo[e].eng.history

\* C3: on an engine with a positive population and a policy of
\* policy_definitions added, no step() or run() call raises, and every step()
\* call has appended its record.
C3_StepsWithPolicyComplete ==
    \A e \in EngineIds :
        (Alive(e) /\ Population(e) > 0 /\ engines[e].active_policies # <<>>) =>
            /\ Len(History(e)) = engines[e].current_step
            /\ (outcome.eng = e /\ outcome.op \in {"step", "run"}) => outcome.raised = "none"

\* C4: constructing an engine with a positive population size never raises.
C4_ConstructCompletes ==
    (outcome.op = "construct" /\ outcome.arg > 0) => outcome.raised = "none"

\* C5: constructing an engine with a population size of 0 or less raises, so
\* no engine with an empty population exists and no step() runs on one.
C5_FailFast ==
    /\ (outcome.op = "construct" /\ outcome.arg <= 0) => outcome.raised # "none"
    /\ \A e \in EngineIds : Alive(e) => Population(e) > 0

C7_SupplyFloor ==
    \A e \in EngineIds : Alive(e) => \A x \in Supplies(e) : x >= Scale \div 10

\* Steps have depleted a neighborhood's supply down to the floor of 0.1.
C7_Witness ==
    \E e \in EngineIds :
        Alive(e) /\ Len(History(e)) >= 2 /\ Scale \div 10 \in Supplies(e)

\* C8: with a positive population, every record has compliance_rate and
\* avg_stress within [0, 1], and the latest record's compliance_rate is
\* 1 - evaded/population for the agents whose decision in that step was evade.
C8_RatesInUnit ==
    \A e \in EngineIds : (Alive(e) /\ Population(e) > 0) =>
        /\ \A k \in 1..Len(History(e)) :
               InUnit(History(e)[k].compliance_rate) /\ InUnit(History(e)[k].avg_stress)
        /\ History(e) # <<>> =>
               History(e)[Len(History(e))].compliance_rate
                   = Scale - (Evaders(e) * Scale) \div Population(e)

\* A step in which some agent evaded and stress rose has been recorded.
C8_Witness ==
    \E e \in EngineIds :
        /\ Alive(e) /\ Population(e) > 0 /\ History(e) # <<>>
        /\ Evaders(e) > 0
        /\ History(e)[Len(History(e))].compliance_rate < Scale
        /\ History(e)[Len(History(e))].avg_stress > 0

\* C9: on an engine with a positive population, run(steps) returns exactly
\* `steps` records, the i-th with step index (steps taken before the call) + i,
\* which are the last `steps` entries of the history; and the history is
\* always as long as current_step.
C9_RunReturnsSteps ==
    \A e \in EngineIds : (Alive(e) /\ Population(e) > 0) =>
        /\ Len(History(e)) = engines[e].current_step
        /\ (outcome.op = "run" /\ outcome.eng = e) =>
               /\ outcome.raised = "none"
               /\ Len(outcome.ret) = outcome.arg
               /\ \A i \in 1..Len(outcome.ret) : outcome.ret[i].step = outcome.before + i
               /\ outcome.ret = SubSeq(History(e), Len(History(e)) - outcome.arg + 1,
                                       Len(History(e)))

\* C10: the calls on an engine with a positive population leave every record
\* of its history in place and unchanged, and each step() call (each
\* increment of current_step) adds exactly one record at the end.
C10_AppendOnly ==
    [][\A e \in EngineIds :
         (Alive(e) /\ Population(e) > 0 /\ engines'[e] # NoEngine) =>
             /\ IsPrefix(engines[e].history, engines'[e].history)
             /\ Len(engines'[e].history) - Len(engines[e].history)
                    = engines'[e].current_step - engines[e].current_step]_vars
\* ---------------------------------------------------- detector properties
Analysed == detector.analysis # <<>>
Analysis == detector.analysis[1]
PriceSeries == Column(detector.history, "avg_price")
AlertTypes(a) == {a.alerts[k].type : k \in 1..Len(a.alerts)}

\* C11: analyze() on a history of fewer than 2 * window_size records (the
\* empty one included) returns index 0 and no alerts; a history of exactly
\* 2 * window_size records is analysed: the result carries the metrics and
\* the alerts its signals raise.
C11_ShortHistoryZeroSignal ==
    Analysed =>
        /\ Len(detector.history) < 2 * detector.window_size =>
               /\ Analysis.unintended_consequence_index = 0
               /\ Analysis.alerts = <<>>
        /\ Len(detector.history) = 2 * detector.window_size =>
               /\ "metrics" \in DOMAIN Analysis
               /\ ("Compliance Collapse" \in AlertTypes(Analysis))
                      = (detect_sudden_drop(Column(detector.history, "compliance_rate"),
                                            detector.window_size) > 20)

\* A history one record short of 2 * window_size, whose prices would raise
\* an alert were they analysed, has been given to analyze().
C11_Witness ==
    /\ Analysed
    /\ Len(detector.history) = 2 * detector.window_size - 1
    /\ detect_acceleration(PriceSeries, detector.window_size) > Scale \div 2

\* C12: whatever the length of the history, the value analyze() returns
\* has the entries unintended_consequence_index (within [0, 100]), alerts,
\* and metrics with price_acceleration, volatility and
\* compliance_instability.
C12_ResultShape ==
    Analysed =>
        /\ DOMAIN Analysis = {"unintended_consequence_index", "alerts", "metrics"}
        /\ 0 <= Analysis.unintended_consequence_index
        /\ Analysis.unintended_consequence_index <= 100 * Scale
        /\ DOMAIN Analysis.metrics
               = {"price_acceleration", "volatility", "compliance_instability"}

Positive(series) == \A k \in 1..Len(series) : series[k] > 0
StrictlyIncreasing(series) == \A k \in 1..(Len(series) - 1) : series[k] < series[k + 1]
Accelerating(series) ==
    /\ Len(series) >= 3
    /\ Positive(series) /\ StrictlyIncreasing(series) /\ StrictlyIncreasing(Diff(series))
Constant(series) == \A k \in 1..Len(series) : series[k] = series[1]
LongEnough == Len(detector.history) >= 2 * detector.window_size

\* The mean of the last window_size second differences of the series is more
\* than half the mean of the series.
SteepTail(series, window_size) ==
    /\ Len(series) >= 3
    /\ LET tail == LastK(Diff(Diff(series)), window_size)
       IN  ((SumSeq(tail) \div Len(tail)) * Scale) \div (SumSeq(series) \div Len(series))
               > Scale \div 2

\* C13 (as claimed): analyze() on a history of at least 2 * window_size
\* records with positive, strictly increasing, accelerating prices includes a
\* "Price Spiral" alert; on one with constant prices it includes none.
C13_SpiralOnAnyAcceleration ==
    (Analysed /\ LongEnough) =>
        /\ Accelerating(PriceSeries) => "Price Spiral" \in AlertTypes(Analysis)
        /\ Constant(PriceSeries) => "Price Spiral" \notin AlertTypes(Analysis)

\* C13 (amended): on a history of at least 2 * window_size records with
\* positive, strictly increasing, accelerating prices, analyze() includes a
\* "Price Spiral" alert when the mean of the last window_size second
\* differences exceeds 0.5 of the mean price, and none when it does not; on
\* one with constant prices it includes none.
C13_SpiralAboveThreshold ==
    (Analysed /\ LongEnough) =>
        /\ Accelerating(PriceSeries) =>
               ("Price Spiral" \in AlertTypes(Analysis))
                   = SteepTail(PriceSeries, detector.window_size)
        /\ Constant(PriceSeries) => "Price Spiral" \notin AlertTypes(Analysis)

\* An accelerating series steep enough has been analysed and raised the alert.
C13_Witness ==
    /\ Analysed /\ LongEnough
    /\ Accelerating(PriceSeries) /\ Len(PriceSeries) >= 3
    /\ "Price Spiral" \in AlertTypes(Analysis)

\* ---------------------------------------------------------- gini properties
\* C14: for a non-empty list of n non-negative incomes calculate_gini
\* returns a value within [0, (n-1)/n], which is 0 when all incomes are
\* equal and 0 when their total is 0.
C14_GiniRange ==
    (giniCall.result # <<>> /\ giniCall.incomes # <<>>) =>
        LET n == Len(giniCall.incomes)
            g == giniCall.result[1]
        IN  /\ 0 <= g
            /\ g <= ((n - 1) * Scale) \div n
            /\ Constant(giniCall.incomes) => g = 0
            /\ SumSeq(giniCall.incomes) = 0 => g = 0

\* One agent holds all the income of a population of several, listed first,
\* and the coefficient is (n-1)/n.
C14_Witness ==
    /\ giniCall.result # <<>>
    /\ Len(giniCall.incomes) >= 2
    /\ giniCall.incomes[1] > 0
    /\ \A k \in 2..Len(giniCall.incomes) : giniCall.incomes[k] = 0
    /\ giniCall.result[1] = ((Len(giniCall.incomes) - 1) * Scale) \div Len(giniCall.incomes)

\* --------------------------------------------- analyzer and API properties
\* The history of a fresh engine with the given seed and the one policy,
\* run for the given steps.
FreshRun(n, seed, policy, steps) ==
    RunFn([EngineInit(n, seed, FreshRng).eng EXCEPT !.active_policies = <<policy>>],
          EngineInit(n, seed, FreshRng).rng, steps, <<>>)

LastOf(history) == history[Len(history)]

\* C15: compare_policies over k >= 1 policies and steps >= 1 returns a
\* mapping of exactly k keys, one per list position, whose entry holds the
\* final_compliance, final_inequality, final_price and final_stress of the
\* last record of a fresh engine with the analyzer's seed and that policy.
C15_OneResultPerPolicy ==
    (outcome.op = "compare_policies" /\ Len(outcome.arg.policies) >= 1
         /\ outcome.arg.steps >= 1) =>
        /\ outcome.raised = "none"
        /\ Cardinality(DOMAIN outcome.ret) = Len(outcome.arg.policies)
        /\ \A i \in 1..Len(outcome.arg.policies) :
               LET key == ResultKey(i - 1, outcome.arg.policies[i])
                   last == LastOf(FreshRun(outcome.arg.population_size, outcome.arg.seed,
                                           outcome.arg.policies[i], outcome.arg.steps).ret)
               IN  /\ key \in DOMAIN outcome.ret
                   /\ outcome.ret[key].final_compliance = last.compliance_rate
                   /\ outcome.ret[key].final_inequality = last.gini
                   /\ outcome.ret[key].final_price = last.avg_price
                   /\ outcome.ret[key].final_stress = last.avg_stress

\* The policy-type identifiers: the values of PolicyType and the ones
\* run_simulation compares against.
Recognized ==
    {"housing_rent_subsidy", "luxury_asset_tax", "food_price_ceiling", "fuel_tax_rebate"}

\* C16: a simulate request whose policy_type is not a recognized identifier
\* is answered with an error status, never with a normal response; and a
\* compare request naming only unrecognized identifiers likewise.
C16_UnrecognizedRejected ==
    /\ (outcome.op = "simulate" /\ outcome.arg.policy_type \notin Recognized) =>
           outcome.ret[1].status >= 400
    /\ (outcome.op = "compare" /\ outcome.arg # <<>>
            /\ \A k \in 1..Len(outcome.arg) : outcome.arg[k].policy_type \notin Recognized) =>
           outcome.ret[1].status >= 400

\* ------------------------------------------------------ ordering in step()
\* A step() call on engine e has run from the unprimed to the primed state
\* and recorded its step.
StepCompleted(e) ==
    /\ Alive(e) /\ Population(e) > 0
    /\ engines'[e].current_step = engines[e].current_step + 1
    /\ Len(engines'[e].history) = Len(engines[e].history) + 1

\* C17: in step t every agent's social-influence update reads the decisions
\* its neighbors made in step t-1: its compliance_probability after the step
\* is the update computed from the last_decision values the neighbors held
\* when the step began, never from one written earlier in the same step.
C17_InfluenceFromPriorStep ==
    [][\A e \in EngineIds : StepCompleted(e) =>
          \A i \in 1..Population(e) :
              engines'[e].agents[i].compliance_probability
                  = apply_social_influence(
                        engines[e].agents[i],
                        get_neighbors_behavior(engines[e].env, i - 1, engines[e].agents)
                    ).compliance_probability]_vars

\* A step() call on engine e, with policies active, has run from the
\* unprimed to the primed state.
StepCalledWithPolicies(e) ==
    /\ Alive(e) /\ Population(e) > 0
    /\ engines[e].active_policies # <<>>
    /\ engines'[e].current_step = engines[e].current_step + 1

PoliciesOfType(e, type) ==
    {k \in 1..Len(engines[e].active_policies) : engines[e].active_policies[k].type = type}

\* C18: in one step() the intended effects of all active policies come
\* before the agents act, and all distortions after the market update, in
\* activation order: an agent eligible for an active subsidy ends the step
\* with a higher income; with a wealth tax active no agent consumes more
\* than its wealth after the tax affords; and the neighborhoods after the
\* step are the market update of this step's consumption with the
\* distortions applied to it in activation order.
C18_CompositionOrder ==
    [][\A e \in EngineIds : StepCalledWithPolicies(e) =>
          /\ \A i \in 1..Population(e) :
                 LET a == engines[e].agents[i]
                     b == engines'[e].agents[i]
                     ps == engines[e].active_policies
                 IN  /\ (\E k \in PoliciesOfType(e, "HOUSING_RENT_SUBSIDY") :
                            /\ a.income < ps[k].parameters.eligibility_threshold
                            /\ ps[k].parameters.subsidy_amount > 0)
                            => b.income > a.income
                     /\ \A k \in PoliciesOfType(e, "LUXURY_ASSET_TAX") :
                            b.last_consumption
                                <= Div(a.wealth + a.income
                                           - calculate_wealth_tax(ps[k], a.wealth + a.income),
                                       Max2(Scale \div 10, get_local_price(engines[e].env, i - 1)))
          /\ engines'[e].env =
                 ApplyDistortions(update_market_dynamics(engines[e].env, engines'[e].agents),
                                  engines[e].active_policies, 1)]_vars

\* C19: with a FoodPriceCeiling(price_cap = c) active, every neighborhood
\* price after a step() is at most c.
C19_PriceCapped ==
    [][\A e \in EngineIds : StepCalledWithPolicies(e) =>
          \A k \in PoliciesOfType(e, "FOOD_PRICE_CEILING") :
              \A loc \in 1..engines'[e].env.size :
                  engines'[e].env.neighborhoods[loc].price
                      <= engines[e].active_policies[k].parameters.price_cap]_vars

\* C20: after place_agents every agent's adjacency list holds between 2 and
\* 5 pairwise distinct agent ids, none of them the agent's own, and every
\* agent has one neighborhood in 0..size-1.
C20_PlacementShape ==
    \A e \in EngineIds : Alive(e) =>
        LET env == engines[e].env
            n == Population(e)
        IN  /\ Len(env.network) = n
            /\ Len(env.agent_locations) = n
            /\ \A i \in 1..n :
                   LET friends == env.network[i]
                   IN  /\ Len(friends) \in 2..5
                       /\ \A j, k \in 1..Len(friends) : friends[j] = friends[k] => j = k
                       /\ \A j \in 1..Len(friends) :
                              friends[j] \in 0..(n - 1) /\ friends[j] # i - 1
                       /\ env.agent_locations[i] \in 0..(env.size - 1)

AgentInBounds(a) ==
    /\ InUnit(a.stress_level)
    /\ Scale \div 10 <= a.compliance_probability
    /\ a.compliance_probability <= Scale

\* Agent i of engine e after the luxury-tax block of step() (wealth tax and
\* capital-flight draw) under the default LuxuryAssetTax, drawing from the
\* numpy stream as it stands.
AfterLuxuryBlock(e, i) ==
    ApplyLuxury(engines[e].agents[i], [raised |-> "none", found |-> TRUE, at |-> 1],
                <<LuxuryAssetTax(5, 2000 * Scale)>>, rng.np).agent

\* C21: in every reachable state of an engine, whatever policies are active
\* and however many steps were called, every agent has stress_level in
\* [0, 1] and compliance_probability in [0.1, 1.0]; and the luxury-tax
\* block with its capital-flight increase of stress, applied to any such
\* agent, keeps both within these ranges.
C21_AgentBounds ==
    \A e \in EngineIds : Alive(e) =>
        \A i \in 1..Population(e) :
            /\ AgentInBounds(engines[e].agents[i])
            /\ AgentInBounds(AfterLuxuryBlock(e, i))

\* An engine that completed a step, then had a step called under an active
\* policy, with an agent whose stress has risen, whose compliance
\* probability has moved off its initial value, and for whom capital flight
\* would raise stress further.
C21_Witness ==
    \E e \in EngineIds :
        /\ Alive(e)
        /\ engines[e].history # <<>>
        /\ engines[e].active_policies # <<>>
        /\ engines[e].current_step > Len(engines[e].history)
        /\ \E i \in 1..Population(e) :
               LET a == engines[e].agents[i]
               IN  /\ a.stress_level > 0
                   /\ a.compliance_probability # Scale - (Scale - a.risk_tolerance) \div 2
                   /\ AfterLuxuryBlock(e, i).stress_level > a.stress_level

\* C22: with one HousingRentSubsidy(s > 0, T) active, a step() raises the
\* stored income of every agent that starts the step below T by exactly s
\* and leaves the income of every other agent as it was, so that incomes
\* never decrease and settle once they reach T.
C22_SubsidyAccumulates ==
    [][\A e \in EngineIds : StepCalledWithPolicies(e) =>
          \A k \in PoliciesOfType(e, "HOUSING_RENT_SUBSIDY") :
              (PoliciesOfType(e, "HOUSING_RENT_SUBSIDY") = {k}
               /\ engines[e].active_policies[k].parameters.subsidy_amount > 0) =>
                  \A i \in 1..Population(e) :
                      LET p == engines[e].active_policies[k].parameters
                          income == engines[e].agents[i].income
                      IN  engines'[e].agents[i].income =
                              IF income < p.eligibility_threshold
                              THEN income + p.subsidy_amount
                              ELSE income]_vars
====
